---- MODULE Spec2Model ----
(***************************************************************************)
(* kv_3d_storage: order-homomorphic encodings of dimensions and 3d points, *)
(* the control implementation of the 3d-ish zip tree (from_iter,           *)
(* insert_no_balance, assert_tree_invariants), and the kv-tree key layout  *)
(* with its child lookups.                                                 *)
(*                                                                         *)
(* Six specifications share the variables:                                 *)
(*   Spec     the `control` fuzz target followed by the kv-tree mapping;   *)
(*   SpecEnc  the `encoding` fuzz target;                                  *)
(*   SpecArb  hand-assembled ControlNode values given to the verifier;     *)
(*   SpecDec  the decoders run on arbitrary bytes;                         *)
(*   SpecIns  sequences of insert_no_balance calls, for every monoid;      *)
(*   SpecRep  hand-assembled ControlNode values with a repeated point.     *)
(***************************************************************************)
EXTENDS Integers, Sequences, FiniteSets, Bags, TLC

VARIABLES
    pc,        \* position of the running harness
    data,      \* control target: HashMap from Point3d to (value, rank)
    tree,      \* control target: the ControlNode returned by from_iter
    runs,      \* control target: number of from_iter runs over `data` so far
    verdict,   \* result of assert_tree_invariants on `tree` / `cand`
    store,     \* kv-store contents: set of (key, value) entries
    lookup,    \* last child lookup made against `store`
    encData,   \* encoding target: the six fuzzed bytes (x1, y1, z1, x2, y2, z2)
    encTest,   \* encoding target: buffers, lengths and decode results
    cand,      \* SpecArb: a hand-assembled ControlNode
    monoid     \* the LiftingCommutativeMonoid M the ControlNode is built with

vars == <<pc, data, tree, runs, verdict, store, lookup, encData, encTest, cand,
          monoid>>

----------------------------------------------------------------------------
(* Bounds of the model and constants of the program.                       *)

\* Largest value of a u8 (dimensions, ranks and values are all u8).
U8Max == 255
\* The u8 values 0..MaxDim and U8Max are fed to the encoding target.
MaxDim == 1
\* The control target draws its points from the first NumPoints of PointList.
NumPoints == 4
\* Ranks 0..MaxRank and U8Max are used by the control target.
MaxRank == 2
\* At most MaxN entries in the fuzzed HashMap.
MaxN == 3
\* from_iter is run at most MaxRuns times over the same HashMap.
MaxRuns == 2
\* SpecArb assembles trees of at most ArbN vertices over the first
\* ArbNumPoints points of PointList.
ArbN == 3
ArbNumPoints == 4
\* The calls of insert_no_balance in one sequence.
InsN == 3
\* Decoding arbitrary bytes: the longest short run of 2s and the longest tail.
MaxShortRun == 1
MaxTail == 2

Min(a, b) == IF a < b THEN a ELSE b

None == [tag |-> "None"]
Some(v) == [tag |-> "Some", v |-> v]

----------------------------------------------------------------------------
(* core::cmp::Ordering and the orderings of u8 and of byte slices.         *)

\* Ord::cmp of u8 (derived Ord of U8FixedWidth / U8VariableWidth).
u8_cmp(a, b) == IF a < b THEN "Less" ELSE IF a > b THEN "Greater" ELSE "Equal"

\* Ord::cmp of [u8]: lexicographic, a proper prefix is Less.
slice_cmp(a, b) ==
    LET n == Min(Len(a), Len(b))
        diff == {i \in 1..n : a[i] # b[i]}
    IN  IF diff # {}
        THEN LET i == CHOOSE j \in diff : \A k \in diff : j <= k
             IN  u8_cmp(a[i], b[i])
        ELSE u8_cmp(Len(a), Len(b))

\* buf[0..len]
slice_to(buf, len) == SubSeq(buf, 1, len)

\* vec![] resized to n zero bytes
zeroed(n) == [i \in 1..n |-> 0]

----------------------------------------------------------------------------
(* Point3d: the three orderings.                                           *)

Point3d(x, y, z) == [x |-> x, y |-> y, z |-> z]

cmp_xyz_mutrev(self, other) ==
    LET x_cmp == u8_cmp(other.x, self.x)
    IN  IF x_cmp = "Equal"
        THEN LET y_cmp == u8_cmp(other.y, self.y)
             IN  IF y_cmp = "Equal" THEN u8_cmp(other.z, self.z) ELSE y_cmp
        ELSE x_cmp

cmp_xyz(self, other) ==
    LET x_cmp == u8_cmp(self.x, other.x)
    IN  IF x_cmp = "Equal"
        THEN LET y_cmp == u8_cmp(self.y, other.y)
             IN  IF y_cmp = "Equal" THEN u8_cmp(self.z, other.z) ELSE y_cmp
        ELSE x_cmp

cmp_yzx(self, other) ==
    LET y_cmp == u8_cmp(self.y, other.y)
    IN  IF y_cmp = "Equal"
        THEN LET z_cmp == u8_cmp(self.z, other.z)
             IN  IF z_cmp = "Equal" THEN u8_cmp(self.x, other.x) ELSE z_cmp
        ELSE y_cmp

cmp_zxy(self, other) ==
    LET z_cmp == u8_cmp(self.z, other.z)
    IN  IF z_cmp = "Equal"
        THEN LET x_cmp == u8_cmp(self.x, other.x)
             IN  IF x_cmp = "Equal" THEN u8_cmp(self.y, other.y) ELSE x_cmp
        ELSE z_cmp

cmp_points_at_rank(rank, p1, p2) ==
    IF rank % 3 = 2 THEN cmp_xyz(p1, p2)
    ELSE IF rank % 3 = 1 THEN cmp_yzx(p1, p2)
    ELSE cmp_zxy(p1, p2)

\* cmp_xyz, cmp_yzx or cmp_zxy, by the name of the ordering.
CmpOf(o, p1, p2) ==
    IF o = "xyz" THEN cmp_xyz(p1, p2)
    ELSE IF o = "yzx" THEN cmp_yzx(p1, p2)
    ELSE cmp_zxy(p1, p2)

----------------------------------------------------------------------------
(* Dimension: the two implementations of the fuzz crate.  A dimension type *)
(* is named by the string "U8FixedWidth" or "U8VariableWidth".  A buffer   *)
(* is a sequence of bytes; Rust's index i is index i + 1 here, and a       *)
(* sub-slice buf[off..] is the pair (buf, off).                            *)

DimTypes == {"U8FixedWidth", "U8VariableWidth"}

HOMOMORPHIC_ENCODING_MAX_LENGTH_mut255(D) ==
    IF D = "U8FixedWidth" THEN 1 ELSE 255

HOMOMORPHIC_ENCODING_MAX_LENGTH(D) ==
    IF D = "U8FixedWidth" THEN 1 ELSE 256

IS_FIXED_WIDTH_ENCODING(D) == D = "U8FixedWidth"

EncPanic(buf) == [panic |-> TRUE, buf |-> buf, len |-> 0]

U8FixedWidth_homomorphic_encode_mutzero(v, buf, off) ==
    IF off + 1 > Len(buf)
    THEN EncPanic(buf)
    ELSE [panic |-> FALSE,
          buf |-> SubSeq(buf, 1, off) \o <<0>> \o SubSeq(buf, off + 2, Len(buf)),
          len |-> 1]

\* buf[0] = self.0; return 1
U8FixedWidth_homomorphic_encode(v, buf, off) ==
    IF off + 1 > Len(buf)
    THEN EncPanic(buf)
    ELSE [panic |-> FALSE,
          buf |-> SubSeq(buf, 1, off) \o <<v>> \o SubSeq(buf, off + 2, Len(buf)),
          len |-> 1]

U8VariableWidth_homomorphic_encode_mut0(v, buf, off) ==
    IF off > Len(buf) THEN EncPanic(buf)
    ELSE IF v + 1 > Len(buf) - off
    THEN EncPanic(SubSeq(buf, 1, off) \o [i \in 1..(Len(buf) - off) |-> 0])
    ELSE [buf |-> SubSeq(buf, 1, off) \o [i \in 1..v |-> 0] \o <<1>>
                     \o SubSeq(buf, off + v + 2, Len(buf)),
          len |-> v + 1, panic |-> FALSE]

U8VariableWidth_homomorphic_encode_mut3(v, buf, off) ==
    IF off > Len(buf) THEN EncPanic(buf)
    ELSE IF off + v + 1 > Len(buf)
    THEN EncPanic(SubSeq(buf, 1, off) \o [i \in 1..(Len(buf) - off) |-> 2])
    ELSE [panic |-> FALSE,
          buf |-> SubSeq(buf, 1, off) \o [i \in 1..v |-> 2] \o <<3>>
                      \o SubSeq(buf, off + v + 2, Len(buf)),
          len |-> v + 1]

\* n times the byte 2, then the byte 1; return n + 1.  Into a slice that
\* is too short the loop writes the 2s that fit (the whole slice) before
\* the index that is out of bounds panics; taking the slice buf[off..]
\* panics, with nothing written, when off is past the end.
U8VariableWidth_homomorphic_encode(v, buf, off) ==
    IF off > Len(buf) THEN EncPanic(buf)
    ELSE IF off + v + 1 > Len(buf)
    THEN EncPanic(SubSeq(buf, 1, off) \o [i \in 1..(Len(buf) - off) |-> 2])
    ELSE [panic |-> FALSE,
          buf |-> SubSeq(buf, 1, off) \o [i \in 1..v |-> 2] \o <<1>>
                      \o SubSeq(buf, off + v + 2, Len(buf)),
          len |-> v + 1]

homomorphic_encode(D, v, buf, off) ==
    IF D = "U8FixedWidth"
    THEN U8FixedWidth_homomorphic_encode(v, buf, off)
    ELSE U8VariableWidth_homomorphic_encode(v, buf, off)

DecOk(value, len) == [tag |-> "Ok", value |-> value, len |-> len]
DecErr == [tag |-> "Err", value |-> 0, len |-> 0]
DecPanic == [tag |-> "Panic", value |-> 0, len |-> 0]

U8FixedWidth_homomorphic_decode(buf, off) ==
    IF off > Len(buf) THEN DecPanic
    ELSE IF Len(buf) - off = 0 THEN DecErr
    ELSE DecOk(buf[off + 1], 1)

\* The index i at which the while loop of U8VariableWidth::homomorphic_decode
\* stops on the slice buf[off..] of length n: the first i that is out of
\* bounds, or reaches 256, or whose byte is not 2.
decode_loop_exit(buf, off, n) ==
    LET lim == Min(n, 256)
    IN  IF \E i \in 0..(lim - 1) : buf[off + i + 1] # 2
        THEN CHOOSE i \in 0..(lim - 1) :
                 /\ buf[off + i + 1] # 2
                 /\ \A j \in 0..(i - 1) : buf[off + j + 1] = 2
        ELSE lim

U8VariableWidth_homomorphic_decode_mutlen(buf, off) ==
    IF off > Len(buf) THEN DecPanic
    ELSE LET n == Len(buf) - off
             i == decode_loop_exit(buf, off, n)
         IN  IF i >= n THEN DecPanic
             ELSE IF buf[off + i + 1] = 1 THEN DecOk(i % (U8Max + 1), i)
             ELSE DecErr

\* while buf[i] != 1 { if i >= 256 { Err } if buf[i] == 2 { i += 1 } else { Err } }
\* Ok((Self(i as u8), i + 1))
U8VariableWidth_homomorphic_decode(buf, off) ==
    IF off > Len(buf) THEN DecPanic
    ELSE LET n == Len(buf) - off
             i == decode_loop_exit(buf, off, n)
         IN  IF i >= n THEN DecPanic
             ELSE IF buf[off + i + 1] = 1 THEN DecOk(i % (U8Max + 1), i + 1)
             ELSE DecErr

homomorphic_decode(D, buf, off) ==
    IF D = "U8FixedWidth"
    THEN U8FixedWidth_homomorphic_decode(buf, off)
    ELSE U8VariableWidth_homomorphic_decode(buf, off)

----------------------------------------------------------------------------
(* Point3d: encodings.  The type parameters <X, Y, Z> are the record T.    *)

PointTypes(X, Y, Z) == [X |-> X, Y |-> Y, Z |-> Z]

\* One field of an encode_<ordering>: encode the dimension at buf[len..],
\* then (first and second field only) two zero bytes if it is variable-width.
\* A panic leaves in the buffer what was written before the failing index.
encode_field(D, v, st, delimited) ==
    IF st.panic THEN st
    ELSE LET e == homomorphic_encode(D, v, st.buf, st.len)
             len == st.len + e.len
         IN  IF e.panic THEN EncPanic(e.buf)
             ELSE IF delimited /\ ~IS_FIXED_WIDTH_ENCODING(D)
             THEN IF len + 1 > Len(e.buf)
                  THEN EncPanic(e.buf)
                  ELSE IF len + 2 > Len(e.buf)
                  THEN EncPanic(SubSeq(e.buf, 1, len) \o <<0>>)
                  ELSE [panic |-> FALSE,
                        buf |-> SubSeq(e.buf, 1, len) \o <<0, 0>>
                                    \o SubSeq(e.buf, len + 3, Len(e.buf)),
                        len |-> len + 2]
             ELSE [panic |-> FALSE, buf |-> e.buf, len |-> len]

EncStart(buf) == [panic |-> FALSE, buf |-> buf, len |-> 0]

max_encoding_len_xyz(T) ==
    HOMOMORPHIC_ENCODING_MAX_LENGTH(T.X)
        + (IF IS_FIXED_WIDTH_ENCODING(T.X) THEN 0 ELSE 2)
        + HOMOMORPHIC_ENCODING_MAX_LENGTH(T.Y)
        + (IF IS_FIXED_WIDTH_ENCODING(T.Y) THEN 0 ELSE 2)
        + HOMOMORPHIC_ENCODING_MAX_LENGTH(T.Z)

encode_xyz(T, self, buf) ==
    encode_field(T.Z, self.z,
        encode_field(T.Y, self.y,
            encode_field(T.X, self.x, EncStart(buf), TRUE), TRUE), FALSE)

max_encoding_len_yzx(T) ==
    HOMOMORPHIC_ENCODING_MAX_LENGTH(T.Y)
        + (IF IS_FIXED_WIDTH_ENCODING(T.Y) THEN 0 ELSE 2)
        + HOMOMORPHIC_ENCODING_MAX_LENGTH(T.Z)
        + (IF IS_FIXED_WIDTH_ENCODING(T.Z) THEN 0 ELSE 2)
        + HOMOMORPHIC_ENCODING_MAX_LENGTH(T.X)

encode_yzx(T, self, buf) ==
    encode_field(T.X, self.x,
        encode_field(T.Z, self.z,
            encode_field(T.Y, self.y, EncStart(buf), TRUE), TRUE), FALSE)

max_encoding_len_zxy(T) ==
    HOMOMORPHIC_ENCODING_MAX_LENGTH(T.Z)
        + (IF IS_FIXED_WIDTH_ENCODING(T.Z) THEN 0 ELSE 2)
        + HOMOMORPHIC_ENCODING_MAX_LENGTH(T.X)
        + (IF IS_FIXED_WIDTH_ENCODING(T.X) THEN 0 ELSE 2)
        + HOMOMORPHIC_ENCODING_MAX_LENGTH(T.Y)

encode_zxy_mutzyx(T, self, buf) ==
    encode_field(T.X, self.x,
        encode_field(T.Y, self.y,
            encode_field(T.Z, self.z, EncStart(buf), TRUE), TRUE), FALSE)

encode_zxy(T, self, buf) ==
    encode_field(T.Y, self.y,
        encode_field(T.X, self.x,
            encode_field(T.Z, self.z, EncStart(buf), TRUE), TRUE), FALSE)

\* One field of a decode_<ordering>: decode the dimension at buf[offset..],
\* then (first and second field only) expect two zero bytes if it is
\* variable-width.  st.vals collects the decoded values in field order.
decode_field(D, buf, st, delimited) ==
    IF st.tag # "Ok" THEN st
    ELSE LET d == homomorphic_decode(D, buf, st.offset)
             offset == st.offset + d.len
             vals == Append(st.vals, d.value)
         IN  IF d.tag # "Ok" THEN [tag |-> d.tag, offset |-> st.offset, vals |-> st.vals]
             ELSE IF delimited /\ ~IS_FIXED_WIDTH_ENCODING(D)
             THEN IF offset >= Len(buf)
                  THEN [tag |-> "Panic", offset |-> offset, vals |-> vals]
                  ELSE IF buf[offset + 1] # 0
                  THEN [tag |-> "Err", offset |-> offset, vals |-> vals]
                  ELSE IF offset + 1 >= Len(buf)
                  THEN [tag |-> "Panic", offset |-> offset, vals |-> vals]
                  ELSE IF buf[offset + 2] # 0
                  THEN [tag |-> "Err", offset |-> offset, vals |-> vals]
                  ELSE [tag |-> "Ok", offset |-> offset + 2, vals |-> vals]
             ELSE [tag |-> "Ok", offset |-> offset, vals |-> vals]

DecStart == [tag |-> "Ok", offset |-> 0, vals |-> <<>>]

decode_xyz(T, buf) ==
    LET r == decode_field(T.Z, buf,
                 decode_field(T.Y, buf,
                     decode_field(T.X, buf, DecStart, TRUE), TRUE), FALSE)
    IN  IF r.tag = "Ok"
        THEN DecOk(Point3d(r.vals[1], r.vals[2], r.vals[3]), r.offset)
        ELSE [tag |-> r.tag, value |-> 0, len |-> 0]

decode_yzx(T, buf) ==
    LET r == decode_field(T.X, buf,
                 decode_field(T.Z, buf,
                     decode_field(T.Y, buf, DecStart, TRUE), TRUE), FALSE)
    IN  IF r.tag = "Ok"
        THEN DecOk(Point3d(r.vals[3], r.vals[1], r.vals[2]), r.offset)
        ELSE [tag |-> r.tag, value |-> 0, len |-> 0]

decode_zxy(T, buf) ==
    LET r == decode_field(T.Y, buf,
                 decode_field(T.X, buf,
                     decode_field(T.Z, buf, DecStart, TRUE), TRUE), FALSE)
    IN  IF r.tag = "Ok"
        THEN DecOk(Point3d(r.vals[2], r.vals[3], r.vals[1]), r.offset)
        ELSE [tag |-> r.tag, value |-> 0, len |-> 0]

----------------------------------------------------------------------------
(* LiftingCommutativeMonoid<LiftingFrom>.  ControlNode is generic in the   *)
(* monoid M; every operator below takes M as the code takes the type.      *)
(*   "usize"  the counting monoid: any value lifts to 1, combine is +;     *)
(*   "()"     the trivial monoid;                                          *)
(*   "free"   the free commutative monoid over LiftingFrom: the bags of    *)
(*            lifted values, combined by bag union.  The trait leaves lift *)
(*            and combine open and asks only that combine be associative   *)
(*            and commutative with NEUTRAL as its neutral element; every   *)
(*            such instance is the image of this one under the             *)
(*            homomorphism that sends the bag of one value to that value's *)
(*            lift, so an equation between combinations of lifts that      *)
(*            holds here holds for every instance.                         *)

Monoids == {"usize", "()", "free"}

NEUTRAL(M) ==
    CASE M = "usize" -> 0
      [] M = "()"    -> <<>>
      [] M = "free"  -> EmptyBag

lift(M, val) ==
    CASE M = "usize" -> 1
      [] M = "()"    -> <<>>
      [] M = "free"  -> SetToBag({val})

combine_mutleft(M, a, b) == a

combine(M, a, b) ==
    CASE M = "usize" -> a + b
      [] M = "()"    -> <<>>
      [] M = "free"  -> a (+) b

----------------------------------------------------------------------------
(* ControlNode: the in-memory control implementation of the tree.          *)

Empty == [tag |-> "Empty"]

NonEmpty(key, rank, left, right, value, count, summary) ==
    [tag |-> "NonEmpty", key |-> key, rank |-> rank, left |-> left,
     right |-> right, value |-> value, count |-> count, summary |-> summary]

\* The unwinding of panic!() out of insert_no_balance / from_iter.
Panicked == [tag |-> "Panicked"]

\* insert_no_balance with one slip: "lift" combines a vertex's summary with
\* the lift of the vertex's own pair instead of the inserted one, "swap"
\* exchanges the Less and Greater arms.
RECURSIVE insert_no_balance_slip(_, _, _, _, _, _)
insert_no_balance_slip(M, self, point, value, rank, slip) ==
    LET summary == IF slip = "lift" /\ self.tag = "NonEmpty"
                   THEN lift(M, <<self.key, self.value>>)
                   ELSE lift(M, <<point, value>>)
    IN  IF self.tag = "Empty"
        THEN NonEmpty(point, rank, Empty, Empty, value, 1, summary)
        ELSE LET c == cmp_points_at_rank(self.rank, self.key, point)
                 right == IF slip = "swap" THEN c = "Greater" ELSE c = "Less"
             IN  IF c = "Equal" THEN Panicked
                 ELSE IF right
                 THEN LET r == insert_no_balance_slip(M, self.right, point, value, rank, slip)
                      IN  IF r.tag = "Panicked" THEN Panicked
                          ELSE [self EXCEPT !.right = r,
                                            !.count = self.count + 1,
                                            !.summary = combine(M, self.summary, summary)]
                 ELSE LET l == insert_no_balance_slip(M, self.left, point, value, rank, slip)
                      IN  IF l.tag = "Panicked" THEN Panicked
                          ELSE [self EXCEPT !.left = l,
                                            !.count = self.count + 1,
                                            !.summary = combine(M, self.summary, summary)]

insert_no_balance_mutlift(M, self, point, value, rank) ==
    insert_no_balance_slip(M, self, point, value, rank, "lift")

insert_no_balance_mutswap(M, self, point, value, rank) ==
    insert_no_balance_slip(M, self, point, value, rank, "swap")

RECURSIVE insert_no_balance_mutrank(_, _, _, _, _)
insert_no_balance_mutrank(M, self, point, value, rank) ==
    LET summary == lift(M, <<point, value>>)
    IN  IF self.tag = "Empty"
        THEN NonEmpty(point, rank, Empty, Empty, value, 1, summary)
        ELSE LET c == cmp_points_at_rank(rank, self.key, point)
             IN  IF c = "Equal" THEN Panicked
                 ELSE IF c = "Less"
                 THEN LET r == insert_no_balance_mutrank(M, self.right, point, value, rank)
                      IN  IF r.tag = "Panicked" THEN Panicked
                          ELSE [self EXCEPT !.right = r,
                                            !.count = self.count + 1,
                                            !.summary = combine(M, self.summary, summary)]
                 ELSE LET l == insert_no_balance_mutrank(M, self.left, point, value, rank)
                      IN  IF l.tag = "Panicked" THEN Panicked
                          ELSE [self EXCEPT !.left = l,
                                            !.count = self.count + 1,
                                            !.summary = combine(M, self.summary, summary)]

RECURSIVE insert_no_balance(_, _, _, _, _)
insert_no_balance(M, self, point, value, rank) ==
    LET kv_pair == <<point, value>>
        summary == lift(M, kv_pair)
    IN  IF self.tag = "Empty"
        THEN NonEmpty(point, rank, Empty, Empty, value, 1, summary)
        ELSE LET c == cmp_points_at_rank(self.rank, self.key, point)
             IN  IF c = "Equal" THEN Panicked
                 ELSE IF c = "Less"
                 THEN LET r == insert_no_balance(M, self.right, point, value, rank)
                      IN  IF r.tag = "Panicked" THEN Panicked
                          ELSE [self EXCEPT !.right = r,
                                            !.count = self.count + 1,
                                            !.summary = combine(M, self.summary, summary)]
                 ELSE LET l == insert_no_balance(M, self.left, point, value, rank)
                      IN  IF l.tag = "Panicked" THEN Panicked
                          ELSE [self EXCEPT !.left = l,
                                            !.count = self.count + 1,
                                            !.summary = combine(M, self.summary, summary)]

\* A triple (point, value, rank) supplied by the iterator.
Triple(point, value, rank) == [point |-> point, value |-> value, rank |-> rank]

retain_uniques_mutkeep(sorted) == sorted

\* sorted.retain(|(point, _, _)| uniques.insert(point.clone())):
\* keep the first occurrence of each point.
retain_uniques(sorted) ==
    LET keep == {i \in 1..Len(sorted) :
                    \A j \in 1..(i - 1) : sorted[j].point # sorted[i].point}
        F[i \in 0..Len(sorted)] ==
            IF i = 0 THEN <<>>
            ELSE IF i \in keep THEN Append(F[i - 1], sorted[i]) ELSE F[i - 1]
    IN  F[Len(sorted)]

from_iter_compare_mutnotie(t1, t2) ==
    u8_cmp(t2.rank, t1.rank)

\* The closure given to sort_by: descending rank, then ascending in the
\* ordering of the shared rank.
from_iter_compare(t1, t2) ==
    IF u8_cmp(t2.rank, t1.rank) = "Equal"
    THEN cmp_points_at_rank(t1.rank, t1.point, t2.point)
    ELSE u8_cmp(t2.rank, t1.rank)

\* Vec::sort_by: a stable sort.  Each element is placed behind every
\* element already placed that does not compare Greater than it.
sort_by(v) ==
    LET place(acc, e) ==
            LET before == {i \in 1..Len(acc) :
                              \A j \in 1..i : from_iter_compare(acc[j], e) # "Greater"}
                k == Cardinality(before)
            IN  SubSeq(acc, 1, k) \o <<e>> \o SubSeq(acc, k + 1, Len(acc))
        F[i \in 0..Len(v)] == IF i = 0 THEN <<>> ELSE place(F[i - 1], v[i])
    IN  F[Len(v)]

from_iter(M, iter) ==
    LET sorted == sort_by(retain_uniques(iter))
        T[i \in 0..Len(sorted)] ==
            IF i = 0 THEN Empty
            ELSE IF T[i - 1].tag = "Panicked" THEN Panicked
            ELSE insert_no_balance(M, T[i - 1], sorted[i].point,
                                   sorted[i].value, sorted[i].rank)
    IN  T[Len(sorted)]

----------------------------------------------------------------------------
(* assert_tree_invariants.                                                 *)

\* The tuple returned for ControlNode::Empty.
VerifierNone ==
    [panic |-> FALSE,
     min_xyz |-> None, max_xyz |-> None, min_yzx |-> None, max_yzx |-> None,
     min_zxy |-> None, max_zxy |-> None, rank |-> None]

\* A failed assert!() / assert_eq!().
VerifierPanic == [VerifierNone EXCEPT !.panic = TRUE]

child_ranks_ok_mutle(rank, left_rank, right_rank) ==
    /\ left_rank.tag = "Some" => left_rank.v <= rank
    /\ right_rank.tag = "Some" => right_rank.v <= rank

\* assert!(left_rank < *rank); assert!(right_rank <= *rank);
child_ranks_ok(rank, left_rank, right_rank) ==
    /\ left_rank.tag = "Some" => left_rank.v < rank
    /\ right_rank.tag = "Some" => right_rank.v <= rank

separation_ok_mutle(key, rank, l, r) ==
    IF rank % 3 = 0
    THEN /\ l.max_zxy.tag = "Some" => cmp_zxy(l.max_zxy.v, key) # "Greater"
         /\ r.min_zxy.tag = "Some" => cmp_zxy(r.min_zxy.v, key) # "Less"
    ELSE IF rank % 3 = 1
    THEN /\ l.max_yzx.tag = "Some" => cmp_yzx(l.max_yzx.v, key) # "Greater"
         /\ r.min_yzx.tag = "Some" => cmp_yzx(r.min_yzx.v, key) # "Less"
    ELSE /\ l.max_xyz.tag = "Some" => cmp_xyz(l.max_xyz.v, key) # "Greater"
         /\ r.min_xyz.tag = "Some" => cmp_xyz(r.min_xyz.v, key) # "Less"

\* The three branches on rank % 3 with their assert_eq!()s.
separation_ok(key, rank, l, r) ==
    IF rank % 3 = 0
    THEN /\ l.max_zxy.tag = "Some" => cmp_zxy(l.max_zxy.v, key) = "Less"
         /\ r.min_zxy.tag = "Some" => cmp_zxy(r.min_zxy.v, key) = "Greater"
    ELSE IF rank % 3 = 1
    THEN /\ l.max_yzx.tag = "Some" => cmp_yzx(l.max_yzx.v, key) = "Less"
         /\ r.min_yzx.tag = "Some" => cmp_yzx(r.min_yzx.v, key) = "Greater"
    ELSE /\ l.max_xyz.tag = "Some" => cmp_xyz(l.max_xyz.v, key) = "Less"
         /\ r.min_xyz.tag = "Some" => cmp_xyz(r.min_xyz.v, key) = "Greater"

extreme_mutleft(key, l, r, o, want) ==
    IF l.tag = "Some" /\ CmpOf(o, l.v, key) = want THEN l.v ELSE key

\* let mut m = key.clone(); replace it by the left, then by the right
\* child's extreme if that compares `want` to it.
extreme(key, l, r, o, want) ==
    LET m1 == IF l.tag = "Some" /\ CmpOf(o, l.v, key) = want THEN l.v ELSE key
    IN  IF r.tag = "Some" /\ CmpOf(o, r.v, m1) = want THEN r.v ELSE m1

RECURSIVE do_assert_tree_invariants(_)
do_assert_tree_invariants(self) ==
    IF self.tag = "Empty" THEN VerifierNone
    ELSE LET l == do_assert_tree_invariants(self.left)
             r == do_assert_tree_invariants(self.right)
             key == self.key
         IN  IF l.panic \/ r.panic THEN VerifierPanic
             ELSE IF ~child_ranks_ok(self.rank, l.rank, r.rank) THEN VerifierPanic
             ELSE IF ~separation_ok(key, self.rank, l, r) THEN VerifierPanic
             ELSE [panic |-> FALSE,
                   min_xyz |-> Some(extreme(key, l.min_xyz, r.min_xyz, "xyz", "Less")),
                   max_xyz |-> Some(extreme(key, l.max_xyz, r.max_xyz, "xyz", "Greater")),
                   min_yzx |-> Some(extreme(key, l.min_yzx, r.min_yzx, "yzx", "Less")),
                   max_yzx |-> Some(extreme(key, l.max_yzx, r.max_yzx, "yzx", "Greater")),
                   min_zxy |-> Some(extreme(key, l.min_zxy, r.min_zxy, "zxy", "Less")),
                   max_zxy |-> Some(extreme(key, l.max_zxy, r.max_zxy, "zxy", "Greater")),
                   rank |-> Some(self.rank)]

\* "ok" when the verifier returns, "panic" when one of its assertions fails.
assert_tree_invariants(self) ==
    IF do_assert_tree_invariants(self).panic THEN "panic" ELSE "ok"

----------------------------------------------------------------------------
(* Views of a ControlNode used to state properties.  A vertex is named by  *)
(* its path from the root, a sequence of "L" / "R".                        *)

RECURSIVE Paths(_)
Paths(t) ==
    IF t.tag # "NonEmpty" THEN {}
    ELSE {<<>>} \cup {<<"L">> \o q : q \in Paths(t.left)}
                \cup {<<"R">> \o q : q \in Paths(t.right)}

RECURSIVE At(_, _)
At(t, path) ==
    IF path = <<>> THEN t
    ELSE IF Head(path) = "L" THEN At(t.left, Tail(path))
    ELSE At(t.right, Tail(path))

\* The points of the subtree rooted at t.
PointsOf(t) == {At(t, q).key : q \in Paths(t)}

Size(t) == Cardinality(Paths(t))

----------------------------------------------------------------------------
(* kv_tree: the representation of the tree on a kv-store, and the child    *)
(* lookups of its module documentation.                                    *)

\* The dimensions of the control target's points.
ControlTypes == PointTypes("U8FixedWidth", "U8FixedWidth", "U8FixedWidth")

encoding_for_rank_mutxyz(T, r, p) ==
    LET e == encode_xyz(T, p, zeroed(max_encoding_len_xyz(T)))
    IN  slice_to(e.buf, e.len)

\* The homomorphic encoding of p "for the rank r": xyz-encoding if
\* r % 3 == 2, yzx-encoding if r % 3 == 1, zxy-encoding if r % 3 == 0.
encoding_for_rank(T, r, p) ==
    LET e == IF r % 3 = 2 THEN encode_xyz(T, p, zeroed(max_encoding_len_xyz(T)))
             ELSE IF r % 3 = 1 THEN encode_yzx(T, p, zeroed(max_encoding_len_yzx(T)))
             ELSE encode_zxy(T, p, zeroed(max_encoding_len_zxy(T)))
    IN  slice_to(e.buf, e.len)

\* The key: the rank as a single byte, then the encoding of the point.
kv_key(r, p) == <<r>> \o encoding_for_rank(ControlTypes, r, p)

\* The rank of a child, or 255 if there is no child.
child_rank_field(child) == IF child.tag = "NonEmpty" THEN child.rank ELSE 255

\* The entry added to the kv-store for one vertex.
kv_entry(node) ==
    [key |-> kv_key(node.rank, node.key),
     value |-> [rank |-> node.rank, value |-> node.value, summary |-> node.summary,
                left_rank |-> child_rank_field(node.left),
                right_rank |-> child_rank_field(node.right)]]

\* One entry per vertex of the tree.
kv_tree(t) == {kv_entry(At(t, q)) : q \in Paths(t)}

\* BackEnd::insert: the kv pair is in the store, in place of the pair that
\* had its key, if there was any.
insert(entries, key, value) ==
    {e \in entries : e.key # key} \cup {[key |-> key, value |-> value]}

\* BackEnd::delete: the pair with the key, if there was any, is gone.
delete(entries, key) == {e \in entries : e.key # key}

\* The greatest entry whose key is strictly less than the given key.
find_lt(entries, key) ==
    LET below == {e \in entries : slice_cmp(e.key, key) = "Less"}
    IN  IF below = {} THEN None
        ELSE Some(CHOOSE e \in below :
                    \A f \in below : slice_cmp(f.key, e.key) # "Greater")

\* The least entry whose key is strictly greater than the given key.
find_gt(entries, key) ==
    LET above == {e \in entries : slice_cmp(e.key, key) = "Greater"}
    IN  IF above = {} THEN None
        ELSE Some(CHOOSE e \in above :
                    \A f \in above : slice_cmp(f.key, e.key) # "Less")

\* BackEnd::find_lte: the greatest entry whose key is less than or equal
\* to the given key.
find_lte(entries, key) ==
    LET below == {e \in entries : slice_cmp(e.key, key) # "Greater"}
    IN  IF below = {} THEN None
        ELSE Some(CHOOSE e \in below :
                    \A f \in below : slice_cmp(f.key, e.key) # "Greater")

\* BackEnd::find_gte: the least entry whose key is greater than or equal
\* to the given key.
find_gte(entries, key) ==
    LET above == {e \in entries : slice_cmp(e.key, key) # "Less"}
    IN  IF above = {} THEN None
        ELSE Some(CHOOSE e \in above :
                    \A f \in above : slice_cmp(f.key, e.key) # "Less")

\* "To find the left child": vertex for point p, left-child-rank lr.
find_left_child(entries, p, lr) == find_lt(entries, kv_key(lr, p))

\* "To find the right child": vertex for point p, right-child-rank rr.
find_right_child(entries, p, rr) == find_gt(entries, kv_key(rr, p))

----------------------------------------------------------------------------
(* Inputs.                                                                 *)

PointList ==
    << Point3d(0, 0, 0), Point3d(1, 0, 0), Point3d(0, 1, 0), Point3d(0, 0, 1),
       Point3d(1, 1, 0), Point3d(0, 1, 1), Point3d(1, 0, 1), Point3d(1, 1, 1) >>

FirstPoints(n) == {PointList[i] : i \in 1..Min(n, Len(PointList))}

Points == FirstPoints(NumPoints)

Ranks == (0..MaxRank) \cup {U8Max}

\* The value mapped to a point: its position in PointList.
ValueOf(p) == CHOOSE i \in 1..Len(PointList) : PointList[i] = p

\* The HashMaps the control target is run on.
Inputs ==
    UNION {{[p \in S |-> [value |-> ValueOf(p), rank |-> rk[p]]] : rk \in [S -> Ranks]} :
              S \in {S \in SUBSET Points : Cardinality(S) <= MaxN}}

\* data.drain().map(..): the entries of the map in any order.
Drains(d) ==
    LET S == DOMAIN d
        n == Cardinality(S)
    IN  {[i \in 1..n |-> Triple(f[i], d[f[i]].value, d[f[i]].rank)] :
            f \in {g \in [1..n -> S] : \A i, j \in 1..n : i # j => g[i] # g[j]}}

DimValues == (0..MaxDim) \cup {U8Max}

\* The four instantiations of Point3d the encoding target exercises.
ExercisedTypes ==
    {PointTypes("U8FixedWidth", "U8FixedWidth", "U8FixedWidth"),
     PointTypes("U8VariableWidth", "U8VariableWidth", "U8VariableWidth"),
     PointTypes("U8FixedWidth", "U8VariableWidth", "U8VariableWidth"),
     PointTypes("U8FixedWidth", "U8FixedWidth", "U8VariableWidth")}

ArbPoints == FirstPoints(ArbNumPoints)

ArbRanks == 0..MaxRank

----------------------------------------------------------------------------
(* Spec: the control fuzz target, then the kv-tree mapping of its tree.    *)

Init ==
    /\ monoid = "usize"
    /\ pc = "start"
    /\ data \in Inputs
    /\ tree = Empty
    /\ runs = 0
    /\ verdict = "none"
    /\ store = {}
    /\ lookup = None
    /\ encData = <<>>
    /\ encTest = None
    /\ cand = Empty

\* ControlNode::from_iter(data.clone().drain().map(..))
FromIter ==
    /\ pc = "start"
    /\ \E iter \in Drains(data) : tree' = from_iter(monoid, iter)
    /\ runs' = 1
    /\ pc' = "built"
    /\ UNCHANGED <<monoid, data, verdict, store, lookup, encData, encTest, cand>>

\* The target run again on the same map: the drain order may differ.
FromIterAgain ==
    /\ pc = "built"
    /\ runs < MaxRuns
    /\ \E iter \in Drains(data) : tree' = from_iter(monoid, iter)
    /\ runs' = runs + 1
    /\ UNCHANGED <<monoid, pc, data, verdict, store, lookup, encData, encTest, cand>>

\* tree.assert_tree_invariants()
AssertTreeInvariants ==
    /\ pc = "built"
    /\ tree.tag # "Panicked"
    /\ verdict' = assert_tree_invariants(tree)
    /\ pc' = "checked"
    /\ UNCHANGED <<monoid, data, tree, runs, store, lookup, encData, encTest, cand>>

\* pc while the store is written: "stored" when it holds exactly the
\* entries of the tree's vertices, "storing" otherwise.
StorePc(entries, wanted) == IF entries = wanted THEN "stored" ELSE "storing"

\* BackEnd::insert of the entry of one vertex of the tree.  The call puts
\* the pair in the store; or the store is as it was, because the call
\* failed with an Error or because the store held that very pair.
Insert ==
    /\ pc \in {"checked", "storing", "stored"}
    /\ verdict = "ok"
    /\ LET wanted == kv_tree(tree)
       IN  \/ \E e \in wanted \ store :
                 /\ store' = insert(store, e.key, e.value)
                 /\ pc' = StorePc(store', wanted)
           \/ /\ wanted # {}
              /\ store' = store
              /\ pc' = IF pc = "checked" THEN "storing" ELSE pc
    /\ UNCHANGED <<monoid, data, tree, runs, verdict, lookup, encData, encTest, cand>>

\* BackEnd::delete of a key of the store
Delete ==
    /\ pc \in {"storing", "stored"}
    /\ \E e \in store : store' = delete(store, e.key)
    /\ pc' = StorePc(store', kv_tree(tree))
    /\ UNCHANGED <<monoid, data, tree, runs, verdict, lookup, encData, encTest, cand>>

\* BackEnd::flush: the mutations so far are persisted; the pairs the store
\* maps are the same.
Flush ==
    /\ pc \in {"storing", "stored"}
    /\ UNCHANGED vars

\* The left child of the vertex at path q is looked up in the store.
FindLeftChild ==
    /\ pc = "stored"
    /\ \E q \in Paths(tree) :
          LET v == At(tree, q)
          IN  /\ v.left.tag = "NonEmpty"
              /\ lookup' = [side |-> "left", path |-> q, cr |-> v.left.rank,
                            found |-> find_left_child(store, v.key, v.left.rank)]
    /\ pc' = "found"
    /\ UNCHANGED <<monoid, data, tree, runs, verdict, store, encData, encTest, cand>>

\* The right child of the vertex at path q is looked up in the store.
FindRightChild ==
    /\ pc = "stored"
    /\ \E q \in Paths(tree) :
          LET v == At(tree, q)
          IN  /\ v.right.tag = "NonEmpty"
              /\ lookup' = [side |-> "right", path |-> q, cr |-> v.right.rank,
                            found |-> find_right_child(store, v.key, v.right.rank)]
    /\ pc' = "found"
    /\ UNCHANGED <<monoid, data, tree, runs, verdict, store, encData, encTest, cand>>

Next ==
    \/ FromIter
    \/ FromIterAgain
    \/ AssertTreeInvariants
    \/ Insert
    \/ Delete
    \/ Flush
    \/ FindLeftChild
    \/ FindRightChild

Spec == Init /\ [][Next]_vars

----------------------------------------------------------------------------
(* Properties of the control target and of the kv-tree mapping (Spec).     *)

\* The ordering selected by a rank: 2 -> xyz, 1 -> yzx, 0 -> zxy.
LessAtRank(rank, p1, p2) ==
    IF rank % 3 = 2 THEN cmp_xyz(p1, p2) = "Less"
    ELSE IF rank % 3 = 1 THEN cmp_yzx(p1, p2) = "Less"
    ELSE cmp_zxy(p1, p2) = "Less"

\* Invariant rules 1-3 stated vertex by vertex.
RulesHold(t) ==
    \A q \in Paths(t) :
        LET v == At(t, q)
        IN  /\ v.left.tag = "NonEmpty" => v.left.rank < v.rank
            /\ v.right.tag = "NonEmpty" => v.right.rank <= v.rank
            /\ \A p \in PointsOf(v.left) : LessAtRank(v.rank, p, v.key)
            /\ \A p \in PointsOf(v.right) : LessAtRank(v.rank, v.key, p)

\* C1: when the left child of a vertex is looked up (greatest key strictly
\* less than lr ++ encoding of the vertex's point for lr), the entry found
\* is the entry of that vertex's left child.
C1_LeftChildLookup ==
    (pc = "found" /\ lookup.side = "left") =>
        LET c == At(tree, lookup.path).left
        IN  /\ lookup.found.tag = "Some"
            /\ lookup.found.v.key = kv_key(c.rank, c.key)

\* C2: when the right child of a vertex is looked up (least key strictly
\* greater than rr ++ encoding of the vertex's point for rr), the entry
\* found is the entry of that vertex's right child.
C2_RightChildLookup ==
    (pc = "found" /\ lookup.side = "right") =>
        LET c == At(tree, lookup.path).right
        IN  /\ lookup.found.tag = "Some"
            /\ lookup.found.v.key = kv_key(c.rank, c.key)

\* C3: the tree from_iter returns for a map of distinct points passes
\* assert_tree_invariants, and rules 1-3 hold at every vertex.
C3_InvariantPreservation ==
    pc = "checked" => (verdict = "ok" /\ RulesHold(tree))

C3_Witness ==
    /\ pc = "checked"
    /\ Size(tree) = 3
    /\ tree.left.tag = "NonEmpty"
    /\ tree.right.tag = "NonEmpty"
    /\ tree.right.rank = tree.rank
    /\ tree.left.rank % 3 # tree.rank % 3

\* C4: with the counting monoid every vertex's count and summary equal the
\* number of vertices of its subtree; the root's equal the number of
\* entries of the map, and the empty map gives Empty.
C4_AggregateCorrectness ==
    pc \in {"built", "checked"} =>
        /\ \A q \in Paths(tree) :
              LET v == At(tree, q)
              IN  v.count = Size(v) /\ v.summary = Size(v)
        /\ Size(tree) = Cardinality(DOMAIN data)
        /\ (DOMAIN data = {}) => tree = Empty
        /\ (DOMAIN data # {}) =>
              (tree.tag = "NonEmpty" /\ tree.count = Cardinality(DOMAIN data)
                                     /\ tree.summary = Cardinality(DOMAIN data))

C4_Witness ==
    /\ pc = "checked"
    /\ tree.tag = "NonEmpty"
    /\ tree.count = 3
    /\ tree.summary = 3
    /\ \E q \in Paths(tree) : At(tree, q).count = 2

\* C5: running from_iter again over the same map, with the entries drained
\* in any order, returns the same tree.
C5_ConstructionDeterminism ==
    [][(pc = "built" /\ pc' = "built") => tree' = tree]_vars

C5_Witness ==
    /\ pc = "built"
    /\ runs = 2
    /\ Size(tree) = 3
    /\ tree.right.tag = "NonEmpty"
    /\ tree.right.rank = tree.rank
    /\ tree.left.tag = "NonEmpty"

----------------------------------------------------------------------------
(* Further properties of the control target and the kv-tree (Spec).        *)

\* C14: for any two vertices of the stored tree, the vertex of lower rank
\* has the lesser key, and two vertices of the same rank have keys that
\* compare as their points do in the ordering selected by that rank.
C14_KeyOrder ==
    pc = "stored" =>
        \A qa, qb \in Paths(tree) :
            LET a == At(tree, qa)
                b == At(tree, qb)
                ka == kv_entry(a).key
                kb == kv_entry(b).key
            IN  /\ kv_entry(a) \in store
                /\ a.rank < b.rank => slice_cmp(ka, kb) = "Less"
                /\ a.rank = b.rank =>
                      slice_cmp(ka, kb) = cmp_points_at_rank(a.rank, a.key, b.key)

C14_Witness ==
    /\ pc = "stored"
    /\ Size(tree) = 3
    /\ tree.rank % 3 = 1
    /\ tree.right.tag = "NonEmpty"
    /\ tree.right.rank = tree.rank
    /\ cmp_xyz(tree.key, tree.right.key) = "Greater"
    /\ slice_cmp(kv_key(tree.rank, tree.key), kv_key(tree.rank, tree.right.key)) = "Less"
    /\ tree.left.tag = "NonEmpty"

\* The two triples of the example: (0,0,0) with rank 2, (1,0,0) with rank 1.
ExampleData ==
    [p \in {Point3d(0, 0, 0), Point3d(1, 0, 0)} |->
        [value |-> ValueOf(p), rank |-> IF p = Point3d(0, 0, 0) THEN 2 ELSE 1]]

\* C15 as stated: the tree built from the example has root (0,0,0) and
\* (1,0,0) as the root's left child.
C15_ExampleLeftChild ==
    (pc = "built" /\ data = ExampleData) =>
        /\ tree.key = Point3d(0, 0, 0)
        /\ tree.left.tag = "NonEmpty"
        /\ tree.left.key = Point3d(1, 0, 0)

\* C15 as amended: the tree built from the example has root (0,0,0) of
\* rank 2, and (1,0,0), of rank 1, is the root's right child, a leaf; the
\* root has no left child.
C15_ExampleRightChild ==
    (pc = "built" /\ data = ExampleData) =>
        /\ tree.key = Point3d(0, 0, 0)
        /\ tree.rank = 2
        /\ tree.left = Empty
        /\ tree.right.tag = "NonEmpty"
        /\ tree.right.key = Point3d(1, 0, 0)
        /\ tree.right.rank = 1
        /\ tree.right.left = Empty
        /\ tree.right.right = Empty

C15_Witness ==
    /\ pc = "built"
    /\ data = ExampleData
    /\ Size(tree) = 2
    /\ cmp_points_at_rank(2, Point3d(0, 0, 0), Point3d(1, 0, 0)) = "Less"

\* C16: in the stored value of every vertex, the left-child-rank field is
\* 255 exactly when there is no left child, and the right-child-rank field
\* is 255 exactly when there is no right child.
C16_ChildRankSentinel ==
    pc = "stored" =>
        \A q \in Paths(tree) :
            LET v == At(tree, q)
                e == kv_entry(v)
            IN  /\ e \in store
                /\ e.value.left_rank = 255 <=> v.left.tag = "Empty"
                /\ e.value.right_rank = 255 <=> v.right.tag = "Empty"

----------------------------------------------------------------------------
(* SpecEnc: the encoding fuzz target.                                      *)

InitEnc ==
    /\ monoid = "usize"
    /\ pc = "enc_start"
    /\ encData \in [1..6 -> DimValues]
    /\ encTest = None
    /\ data = <<>>
    /\ tree = Empty
    /\ runs = 0
    /\ verdict = "none"
    /\ store = {}
    /\ lookup = None
    /\ cand = Empty

\* What assert_dimension_works / assert_point3d_works compute for one
\* encoding: v1 encoded into a zeroed buffer of the maximum length, that
\* whole buffer decoded, and v2 encoded into a second such buffer.
EncodingRun(v1_enc, v1_dec, v2_enc) ==
    [v1_enc |-> v1_enc,
     v1_dec |-> IF v1_enc.panic THEN None ELSE v1_dec,
     v2_enc |-> IF v1_enc.panic THEN None ELSE v2_enc]

\* assert_dimension_works(&x1, &y1) for the dimension type D
AssertDimensionWorks(D) ==
    /\ pc = "enc_start"
    /\ LET v1 == encData[1]
           v2 == encData[2]
           v1_enc == homomorphic_encode(D, v1, zeroed(HOMOMORPHIC_ENCODING_MAX_LENGTH(D)), 0)
           v2_enc == homomorphic_encode(D, v2, zeroed(HOMOMORPHIC_ENCODING_MAX_LENGTH(D)), 0)
       IN  encTest' = [D |-> D, v1 |-> v1, v2 |-> v2,
                       run |-> EncodingRun(v1_enc,
                                           homomorphic_decode(D, v1_enc.buf, 0),
                                           v2_enc)]
    /\ pc' = "enc_dimension"
    /\ UNCHANGED <<monoid, data, tree, runs, verdict, store, lookup, encData, cand>>

\* assert_point3d_works(&Point3d(x1, y1, z1), &Point3d(x2, y2, z2)) for the
\* dimension types T
AssertPoint3dWorks(T) ==
    /\ pc = "enc_start"
    /\ LET v1 == Point3d(encData[1], encData[2], encData[3])
           v2 == Point3d(encData[4], encData[5], encData[6])
           v1_xyz == encode_xyz(T, v1, zeroed(max_encoding_len_xyz(T)))
           v1_yzx == encode_yzx(T, v1, zeroed(max_encoding_len_yzx(T)))
           v1_zxy == encode_zxy(T, v1, zeroed(max_encoding_len_zxy(T)))
       IN  encTest' =
             [T |-> T, v1 |-> v1, v2 |-> v2,
              xyz |-> EncodingRun(v1_xyz, decode_xyz(T, v1_xyz.buf),
                         encode_xyz(T, v2, zeroed(max_encoding_len_xyz(T)))),
              yzx |-> EncodingRun(v1_yzx, decode_yzx(T, v1_yzx.buf),
                         encode_yzx(T, v2, zeroed(max_encoding_len_yzx(T)))),
              zxy |-> EncodingRun(v1_zxy, decode_zxy(T, v1_zxy.buf),
                         encode_zxy(T, v2, zeroed(max_encoding_len_zxy(T))))]
    /\ pc' = "enc_point"
    /\ UNCHANGED <<monoid, data, tree, runs, verdict, store, lookup, encData, cand>>

NextEnc ==
    \/ \E D \in DimTypes : AssertDimensionWorks(D)
    \/ \E T \in ExercisedTypes : AssertPoint3dWorks(T)

SpecEnc == InitEnc /\ [][NextEnc]_vars

----------------------------------------------------------------------------
(* Properties of the encodings (SpecEnc).                                  *)

Orderings == {"xyz", "yzx", "zxy"}

\* The run of assert_point3d_works for one ordering.
RunOf(o) == IF o = "xyz" THEN encTest.xyz ELSE IF o = "yzx" THEN encTest.yzx ELSE encTest.zxy

MaxLenOf(o, T) ==
    IF o = "xyz" THEN max_encoding_len_xyz(T)
    ELSE IF o = "yzx" THEN max_encoding_len_yzx(T)
    ELSE max_encoding_len_zxy(T)

\* The dimension types of the first, second and third field of an ordering.
FieldTypes(o, T) ==
    IF o = "xyz" THEN <<T.X, T.Y, T.Z>>
    ELSE IF o = "yzx" THEN <<T.Y, T.Z, T.X>>
    ELSE <<T.Z, T.X, T.Y>>

\* The bytes an encoding run wrote: its buffer cut to the returned length.
Written(enc) == slice_to(enc.buf, enc.len)

\* Both encodings of a run returned, and their bytes compare as c.
ComparesAs(run, c) ==
    /\ ~run.v1_enc.panic
    /\ ~run.v2_enc.panic
    /\ slice_cmp(Written(run.v1_enc), Written(run.v2_enc)) = c

\* The whole zero-padded buffer decodes to v with the encoded length.
RoundTrips(run, v) ==
    /\ ~run.v1_enc.panic
    /\ Len(run.v1_enc.buf) >= run.v1_enc.len
    /\ \A i \in (run.v1_enc.len + 1)..Len(run.v1_enc.buf) : run.v1_enc.buf[i] = 0
    /\ run.v1_dec = DecOk(v, run.v1_enc.len)

AllFixed(T) ==
    /\ IS_FIXED_WIDTH_ENCODING(T.X)
    /\ IS_FIXED_WIDTH_ENCODING(T.Y)
    /\ IS_FIXED_WIDTH_ENCODING(T.Z)

\* C7: for each of the three orderings, cmp_<ordering>(p1, p2) equals the
\* lexicographic comparison of the two encodings, each cut to its length.
C7_PointHomomorphism ==
    pc = "enc_point" =>
        \A o \in Orderings : ComparesAs(RunOf(o), CmpOf(o, encTest.v1, encTest.v2))

C7_Witness ==
    /\ pc = "enc_point"
    /\ encTest.T = PointTypes("U8FixedWidth", "U8VariableWidth", "U8VariableWidth")
    /\ encTest.v1.y = U8Max
    /\ encTest.v2.y = U8Max
    /\ encTest.v1.z = encTest.v2.z
    /\ encTest.v1.x = 1
    /\ encTest.v2.x = 0
    /\ cmp_yzx(encTest.v1, encTest.v2) = "Greater"
    /\ cmp_zxy(encTest.v1, encTest.v2) = "Greater"

\* C8: a U8FixedWidth encodes as its raw byte, a U8VariableWidth n as n
\* bytes 2 then one byte 1, and v1.cmp(v2) equals the lexicographic
\* comparison of the two encodings.
C8_DimensionHomomorphism ==
    pc = "enc_dimension" =>
        /\ ComparesAs(encTest.run, u8_cmp(encTest.v1, encTest.v2))
        /\ Written(encTest.run.v1_enc) =
              IF encTest.D = "U8FixedWidth" THEN <<encTest.v1>>
              ELSE [i \in 1..(encTest.v1 + 1) |-> IF i <= encTest.v1 THEN 2 ELSE 1]

C8_Witness ==
    /\ pc = "enc_dimension"
    /\ encTest.D = "U8VariableWidth"
    /\ encTest.v1 = U8Max
    /\ encTest.v2 = 1
    /\ slice_cmp(Written(encTest.run.v1_enc), Written(encTest.run.v2_enc)) = "Greater"

\* C9: decoding the zero-padded buffer of maximum length that holds the
\* encoding of a value (a dimension of either type, or a point under each
\* ordering) returns Ok with that value and the length encode returned.
C9_RoundTrip ==
    /\ pc = "enc_dimension" => RoundTrips(encTest.run, encTest.v1)
    /\ pc = "enc_point" => \A o \in Orderings : RoundTrips(RunOf(o), encTest.v1)

C9_Witness ==
    /\ pc = "enc_point"
    /\ encTest.T = PointTypes("U8VariableWidth", "U8VariableWidth", "U8VariableWidth")
    /\ encTest.v1 = Point3d(U8Max, 0, 1)
    /\ encTest.yzx.v1_dec = DecOk(Point3d(U8Max, 0, 1), 263)

\* C10: an encoding returns (does not overrun its buffer of the maximum
\* length) and is never longer than the maximum length; for a fixed-width
\* dimension, and for a point of three fixed-width dimensions, its length
\* is exactly the maximum.  The maximum length of a point encoding is the
\* sum of the three dimensions' maxima plus 2 for each variable-width
\* dimension among the first two fields of the ordering.
C10_LengthBounds ==
    /\ pc = "enc_dimension" =>
          LET max == HOMOMORPHIC_ENCODING_MAX_LENGTH(encTest.D)
              enc == encTest.run.v1_enc
          IN  /\ ~enc.panic
              /\ enc.len <= max
              /\ IS_FIXED_WIDTH_ENCODING(encTest.D) => enc.len = max
              /\ max = IF encTest.D = "U8FixedWidth" THEN 1 ELSE U8Max + 1
    /\ pc = "enc_point" =>
          \A o \in Orderings :
              LET max == MaxLenOf(o, encTest.T)
                  enc == RunOf(o).v1_enc
                  f == FieldTypes(o, encTest.T)
              IN  /\ ~enc.panic
                  /\ enc.len <= max
                  /\ AllFixed(encTest.T) => enc.len = max
                  /\ max = HOMOMORPHIC_ENCODING_MAX_LENGTH(f[1])
                             + HOMOMORPHIC_ENCODING_MAX_LENGTH(f[2])
                             + HOMOMORPHIC_ENCODING_MAX_LENGTH(f[3])
                             + 2 * Cardinality({i \in 1..2 : ~IS_FIXED_WIDTH_ENCODING(f[i])})

C10_Witness ==
    /\ pc = "enc_point"
    /\ encTest.T = PointTypes("U8VariableWidth", "U8VariableWidth", "U8VariableWidth")
    /\ encTest.v1 = Point3d(U8Max, U8Max, U8Max)
    /\ encTest.zxy.v1_enc.len = 772
    /\ max_encoding_len_zxy(encTest.T) = 772

\* C11: the bytes homomorphic_encode writes for a U8VariableWidth (within
\* the returned length) never hold two consecutive zero bytes.
C11_NoConsecutiveZeros ==
    (pc = "enc_dimension" /\ encTest.D = "U8VariableWidth") =>
        LET enc == encTest.run.v1_enc
        IN  /\ ~enc.panic
            /\ \A i \in 2..enc.len : ~(enc.buf[i] = 0 /\ enc.buf[i - 1] = 0)

C11_Witness ==
    /\ pc = "enc_dimension"
    /\ encTest.D = "U8VariableWidth"
    /\ encTest.v1 = U8Max
    /\ encTest.run.v1_enc.len = U8Max + 1
    /\ \A i \in 1..(U8Max + 1) : encTest.run.v1_enc.buf[i] # 0

----------------------------------------------------------------------------
(* SpecArb: ControlNode values assembled vertex by vertex, in any shape,   *)
(* handed to the verifier and rebuilt by from_iter.                        *)

\* The paths of the ControlNode::Empty positions of t.
RECURSIVE Slots(_)
Slots(t) ==
    IF t.tag # "NonEmpty" THEN {<<>>}
    ELSE {<<"L">> \o q : q \in Slots(t.left)} \cup {<<"R">> \o q : q \in Slots(t.right)}

\* t with the Empty at path replaced by a ControlNode::NonEmpty leaf; the
\* count and summary of every vertex above it take the leaf in.
RECURSIVE WithLeaf(_, _, _, _, _, _)
WithLeaf(M, t, path, point, value, rank) ==
    IF path = <<>>
    THEN NonEmpty(point, rank, Empty, Empty, value, 1, lift(M, <<point, value>>))
    ELSE LET up == [t EXCEPT !.count = t.count + 1,
                             !.summary = combine(M, t.summary, lift(M, <<point, value>>))]
         IN  IF Head(path) = "L"
             THEN [up EXCEPT !.left = WithLeaf(M, t.left, Tail(path), point, value, rank)]
             ELSE [up EXCEPT !.right = WithLeaf(M, t.right, Tail(path), point, value, rank)]

\* The (point, value, rank) triples of the vertices of t, root first.
RECURSIVE TriplesOf(_)
TriplesOf(t) ==
    IF t.tag # "NonEmpty" THEN <<>>
    ELSE <<Triple(t.key, t.value, t.rank)>> \o TriplesOf(t.left) \o TriplesOf(t.right)

InitArb ==
    /\ monoid = "usize"
    /\ pc = "arb_assemble"
    /\ cand = Empty
    /\ tree = Empty
    /\ verdict = "none"
    /\ data = <<>>
    /\ runs = 0
    /\ store = {}
    /\ lookup = None
    /\ encData = <<>>
    /\ encTest = None

\* One more ControlNode::NonEmpty vertex, for a point not yet in the tree
\* and with any rank, at any Empty position.
Graft ==
    /\ pc = "arb_assemble"
    /\ Size(cand) < ArbN
    /\ \E q \in Slots(cand), p \in ArbPoints \ PointsOf(cand), r \in ArbRanks :
          cand' = WithLeaf(monoid, cand, q, p, ValueOf(p), r)
    /\ UNCHANGED <<monoid, pc, data, tree, runs, verdict, store, lookup, encData, encTest>>

\* cand.assert_tree_invariants()
AssertCand ==
    /\ pc = "arb_assemble"
    /\ verdict' = assert_tree_invariants(cand)
    /\ pc' = "arb_checked"
    /\ UNCHANGED <<monoid, data, tree, runs, cand, store, lookup, encData, encTest>>

\* ControlNode::from_iter over the triples of cand
FromIterOfCand ==
    /\ pc = "arb_checked"
    /\ tree' = from_iter(monoid, TriplesOf(cand))
    /\ pc' = "arb_built"
    /\ UNCHANGED <<monoid, data, runs, verdict, cand, store, lookup, encData, encTest>>

NextArb ==
    \/ Graft
    \/ AssertCand
    \/ FromIterOfCand

SpecArb == InitArb /\ [][NextArb]_vars

----------------------------------------------------------------------------
(* Properties of hand-assembled trees (SpecArb).                           *)

\* C6: among the binary trees over a set of distinct ranked points, the
\* tree from_iter builds satisfies rules 1-3 and is the only one that does:
\* a tree satisfies the rules (and passes the verifier) exactly when it is
\* the tree from_iter builds from its vertices.
C6_UniqueShape ==
    pc = "arb_built" =>
        /\ RulesHold(tree)
        /\ RulesHold(cand) <=> cand = tree
        /\ verdict = "ok" <=> cand = tree

C6_Witness ==
    /\ pc = "arb_built"
    /\ Size(cand) = 3
    /\ verdict = "ok"
    /\ cand = tree
    /\ cand.left.tag = "NonEmpty"
    /\ cand.right.tag = "NonEmpty"
    /\ cand.right.rank = cand.rank

----------------------------------------------------------------------------
(* Properties of the verifier on hand-assembled trees (SpecArb).           *)

\* The least (want = "Less") or greatest (want = "Greater") point of a
\* non-empty set under an ordering.
TrueExtreme(S, o, want) ==
    CHOOSE p \in S : \A r \in S \ {p} : CmpOf(o, p, r) = want

\* C19: on any tree, assert_tree_invariants returns exactly when rules 1-3
\* hold at every vertex, and for every subtree it returns from, the six
\* points returned are the least and the greatest point of that subtree
\* under xyz, yzx and zxy.
C19_VerifierExactness ==
    pc \in {"arb_checked", "arb_built"} =>
        /\ verdict = "ok" <=> RulesHold(cand)
        /\ \A q \in Paths(cand) :
              LET sub == At(cand, q)
                  res == do_assert_tree_invariants(sub)
              IN  ~res.panic =>
                      /\ res.min_xyz = Some(TrueExtreme(PointsOf(sub), "xyz", "Less"))
                      /\ res.max_xyz = Some(TrueExtreme(PointsOf(sub), "xyz", "Greater"))
                      /\ res.min_yzx = Some(TrueExtreme(PointsOf(sub), "yzx", "Less"))
                      /\ res.max_yzx = Some(TrueExtreme(PointsOf(sub), "yzx", "Greater"))
                      /\ res.min_zxy = Some(TrueExtreme(PointsOf(sub), "zxy", "Less"))
                      /\ res.max_zxy = Some(TrueExtreme(PointsOf(sub), "zxy", "Greater"))
                      /\ res.rank = Some(sub.rank)

C19_Witness ==
    /\ pc = "arb_checked"
    /\ verdict = "ok"
    /\ Size(cand) = 3
    /\ cand.rank % 3 = 2
    /\ cand.left.tag = "NonEmpty"
    /\ cand.right.tag = "NonEmpty"
    /\ do_assert_tree_invariants(cand).max_yzx = Some(cand.key)
    /\ do_assert_tree_invariants(cand).min_xyz = Some(cand.left.key)
    /\ do_assert_tree_invariants(cand).min_zxy = Some(cand.key)
    /\ do_assert_tree_invariants(cand).max_zxy = Some(cand.left.key)

----------------------------------------------------------------------------
(* SpecDec: the decoders applied to arbitrary bytes.  encData holds the    *)
(* input bytes and encTest what the decoder returned for them.             *)

\* The byte values that matter to a decoder: the delimiter byte 0, the
\* terminator 1, the run byte 2, and a byte that is none of them.
DecBytes == 0..3

\* Run lengths: short ones, and those around the 256 of the decoder's check.
RunLens == (0..MaxShortRun) \cup {U8Max, U8Max + 1, U8Max + 2}

Tails == UNION {[1..n -> DecBytes] : n \in 0..MaxTail}

\* The inputs: a run of the byte 2 followed by any short byte string.
DecInputs == {[i \in 1..n |-> 2] \o t : n \in RunLens, t \in Tails}

InitDec ==
    /\ monoid = "usize"
    /\ pc = "dec_start"
    /\ encData \in DecInputs
    /\ encTest = None
    /\ data = <<>>
    /\ tree = Empty
    /\ runs = 0
    /\ verdict = "none"
    /\ store = {}
    /\ lookup = None
    /\ cand = Empty

\* D::homomorphic_decode(&buf)
DecodeDimension(D) ==
    /\ pc = "dec_start"
    /\ encTest' = [D |-> D, dec |-> homomorphic_decode(D, encData, 0)]
    /\ pc' = "dec_dimension"
    /\ UNCHANGED <<monoid, data, tree, runs, verdict, store, lookup, encData, cand>>

\* Point3d::<X, Y, Z>::decode_xyz(&buf), decode_yzx(&buf) or decode_zxy(&buf)
DecodePoint(T, o) ==
    /\ pc = "dec_start"
    /\ encTest' = [T |-> T, o |-> o,
                   dec |-> IF o = "xyz" THEN decode_xyz(T, encData)
                           ELSE IF o = "yzx" THEN decode_yzx(T, encData)
                           ELSE decode_zxy(T, encData)]
    /\ pc' = "dec_point"
    /\ UNCHANGED <<monoid, data, tree, runs, verdict, store, lookup, encData, cand>>

NextDec ==
    \/ \E D \in DimTypes : DecodeDimension(D)
    \/ \E T \in ExercisedTypes, o \in {"xyz", "yzx", "zxy"} : DecodePoint(T, o)

SpecDec == InitDec /\ [][NextDec]_vars

----------------------------------------------------------------------------
(* Properties of the decoders on arbitrary bytes (SpecDec).                *)

\* The number of leading bytes 2 of a byte string.
LeadingRun(buf) ==
    IF \E i \in 1..Len(buf) : buf[i] # 2
    THEN (CHOOSE i \in 1..Len(buf) : buf[i] # 2 /\ \A j \in 1..(i - 1) : buf[j] = 2) - 1
    ELSE Len(buf)

\* C12: whatever the input bytes, homomorphic_decode of either dimension
\* type and decode_xyz / decode_yzx / decode_zxy return Ok or Err: they
\* never panic by reading past the end of the bytes.
C12_DecodeNeverPanics ==
    pc \in {"dec_dimension", "dec_point"} => encTest.dec.tag \in {"Ok", "Err"}

\* C18: U8VariableWidth::homomorphic_decode returns Ok((n, n + 1)) only for
\* an input that starts with n bytes 2 and then a byte 1, n in 0..255; no
\* input that starts with a run of 256 or more bytes 2 decodes to a value.
C18_VariableWidthDecodeBound ==
    (pc = "dec_dimension" /\ encTest.D = "U8VariableWidth") =>
        LET dec == encTest.dec
            run == LeadingRun(encData)
        IN  /\ dec.tag = "Ok" =>
                  /\ dec.len = dec.value + 1
                  /\ run = dec.value
                  /\ Len(encData) > run
                  /\ encData[run + 1] = 1
            /\ run >= U8Max + 1 => dec.tag # "Ok"

----------------------------------------------------------------------------
(* SpecIns: a sequence of insert_no_balance calls from the empty tree, in  *)
(* any order of ranks and with points that may repeat, and from_iter over  *)
(* the same triples.  data holds the triples given so far, cand the tree   *)
(* before the last call.  Once a call has panicked no further call is      *)
(* made, but the triples handed to from_iter may go on beyond it.          *)

InitIns ==
    /\ monoid \in Monoids
    /\ pc = "ins"
    /\ data = <<>>
    /\ tree = Empty
    /\ cand = Empty
    /\ runs = 0
    /\ verdict = "none"
    /\ store = {}
    /\ lookup = None
    /\ encData = <<>>
    /\ encTest = None

\* tree.insert_no_balance(point, value, rank)
InsertNoBalance ==
    /\ pc = "ins"
    /\ tree.tag # "Panicked"
    /\ Len(data) < InsN
    /\ \E p \in ArbPoints, r \in ArbRanks :
          /\ tree' = insert_no_balance(monoid, tree, p, ValueOf(p), r)
          /\ data' = Append(data, Triple(p, ValueOf(p), r))
    /\ cand' = tree
    /\ UNCHANGED <<monoid, pc, runs, verdict, store, lookup, encData, encTest>>

\* One more triple for the iterator handed to from_iter, after the calls
\* of insert_no_balance have ended in a panic.
MoreTriples ==
    /\ pc \in {"ins", "ins_more"}
    /\ tree.tag = "Panicked"
    /\ Len(data) < InsN
    /\ \E p \in ArbPoints, r \in ArbRanks :
          data' = Append(data, Triple(p, ValueOf(p), r))
    /\ pc' = "ins_more"
    /\ UNCHANGED <<monoid, tree, cand, runs, verdict, store, lookup, encData, encTest>>

\* ControlNode::from_iter over the triples given so far
FromIterOfData ==
    /\ pc \in {"ins", "ins_more"}
    /\ tree' = from_iter(monoid, data)
    /\ cand' = tree
    /\ pc' = "ins_built"
    /\ UNCHANGED <<monoid, data, runs, verdict, store, lookup, encData, encTest>>

NextIns ==
    \/ InsertNoBalance
    \/ MoreTriples
    \/ FromIterOfData

SpecIns == InitIns /\ [][NextIns]_vars

----------------------------------------------------------------------------
(* Properties of insertion sequences (SpecIns).                            *)

\* The triples hold some point twice.
HasDuplicate(triples) ==
    \E i, j \in 1..Len(triples) : i < j /\ triples[i].point = triples[j].point

\* The first of the triples that holds point p.
FirstOf(triples, p) ==
    triples[CHOOSE i \in 1..Len(triples) :
                /\ triples[i].point = p
                /\ \A j \in 1..(i - 1) : triples[j].point # p]

\* The last call of insert_no_balance returned (did not panic).
Inserted == pc = "ins" /\ data # <<>> /\ tree.tag = "NonEmpty"

\* The arguments of the last call.
LastCall == data[Len(data)]

CountOf(t) == IF t.tag = "NonEmpty" THEN t.count ELSE 0

SummaryOf(M, t) == IF t.tag = "NonEmpty" THEN t.summary ELSE NEUTRAL(M)

\* The descent of insert_no_balance for point in t, as the path of the
\* empty slot it reaches.  At every vertex it compares the vertex's point
\* with point in the ordering of the vertex's rank: Equal panics and no
\* vertex is added, Less goes right, Greater goes left.
RECURSIVE DescentSlot(_, _)
DescentSlot(t, point) ==
    IF t.tag # "NonEmpty" THEN <<>>
    ELSE LET c == cmp_points_at_rank(t.rank, t.key, point)
         IN  IF c = "Equal" THEN <<"panic">>
             ELSE IF c = "Less"
             THEN LET r == DescentSlot(t.right, point)
                  IN  IF r = <<"panic">> THEN r ELSE <<"R">> \o r
             ELSE LET l == DescentSlot(t.left, point)
                  IN  IF l = <<"panic">> THEN l ELSE <<"L">> \o l

\* Path q is a proper prefix of path s.
ProperPrefix(q, s) == Len(q) < Len(s) /\ SubSeq(s, 1, Len(q)) = q

\* C13 as stated: triples that hold a point twice make the construction
\* panic.
C13_DuplicatesAreFatal ==
    (pc = "ins_built" /\ HasDuplicate(data)) => tree.tag = "Panicked"

\* C13 as amended: insert_no_balance panics exactly when its point is
\* already in the tree; from_iter keeps the first triple of each point,
\* drops the others, and never panics.
C13_DuplicatesAmended ==
    /\ (pc = "ins" /\ data # <<>>) =>
          (tree.tag = "Panicked" <=> LastCall.point \in PointsOf(cand))
    /\ pc = "ins_built" =>
          /\ tree.tag # "Panicked"
          /\ PointsOf(tree) = {data[i].point : i \in 1..Len(data)}
          /\ Size(tree) = Cardinality(PointsOf(tree))
          /\ \A q \in Paths(tree) :
                LET v == At(tree, q)
                IN  Triple(v.key, v.value, v.rank) = FirstOf(data, v.key)

C13_Witness ==
    /\ pc = "ins_built"
    /\ HasDuplicate(data)
    /\ cand.tag = "Panicked"
    /\ Len(data) = 3
    /\ Size(tree) = 2
    /\ data[3].point = data[1].point
    /\ data[3].rank > data[2].rank
    /\ data[2].rank > data[1].rank

\* C17: for every LiftingCommutativeMonoid (the counting one, the trivial
\* one, and the free one, whose equations hold in every associative and
\* commutative instance), after every insert_no_balance call that returns
\* in a sequence from the empty tree, every vertex has count = 1 + the
\* counts of its children and summary = the combination of the lift of its
\* own (point, value) pair with the summaries of its children (0 and
\* NEUTRAL for Empty); in the free monoid that is the bag holding the pair
\* of every vertex of its subtree once.
C17_SummaryInvariant ==
    Inserted =>
        \A q \in Paths(tree) :
            LET v == At(tree, q)
            IN  /\ v.count = 1 + CountOf(v.left) + CountOf(v.right)
                /\ v.summary = combine(monoid, lift(monoid, <<v.key, v.value>>),
                                       combine(monoid, SummaryOf(monoid, v.left),
                                                       SummaryOf(monoid, v.right)))
                /\ monoid = "free" =>
                      v.summary = SetToBag({<<At(v, p).key, At(v, p).value>> :
                                               p \in Paths(v)})

\* Three calls with the free monoid: the root's left child has a child of
\* its own, and its summary holds its own pair and the pair of the last
\* call, not the root's.
C17_Witness ==
    /\ Inserted
    /\ monoid = "free"
    /\ Len(data) = 3
    /\ tree.count = 3
    /\ tree.left.tag = "NonEmpty"
    /\ tree.left.count = 2
    /\ tree.left.summary = SetToBag({<<tree.left.key, tree.left.value>>,
                                     <<LastCall.point, LastCall.value>>})
    /\ tree.summary = SetToBag({<<d.point, d.value>> : d \in {data[i] : i \in 1..3}})
    /\ tree.left.rank > tree.rank

\* C20: an insert_no_balance call that returns adds one leaf, holding the
\* call's point, value and rank, at the empty slot its descent reaches; of
\* the vertices already there it changes only the count (+1) and summary
\* (combined with the lifted pair) of those on the path to that slot.
C20_InsertionFrame ==
    Inserted =>
        LET slot == DescentSlot(cand, LastCall.point)
            summary == lift(monoid, <<LastCall.point, LastCall.value>>)
        IN  /\ slot \notin Paths(cand)
            /\ Paths(tree) = Paths(cand) \cup {slot}
            /\ At(tree, slot) = NonEmpty(LastCall.point, LastCall.rank, Empty, Empty,
                                         LastCall.value, 1, summary)
            /\ \A q \in Paths(cand) :
                  LET old == At(cand, q)
                      new == At(tree, q)
                  IN  /\ new.key = old.key
                      /\ new.rank = old.rank
                      /\ new.value = old.value
                      /\ new.count = IF ProperPrefix(q, slot) THEN old.count + 1
                                     ELSE old.count
                      /\ new.summary = IF ProperPrefix(q, slot)
                                       THEN combine(monoid, old.summary, summary)
                                       ELSE old.summary

C20_Witness ==
    /\ Inserted
    /\ Len(data) = 3
    /\ Size(cand) = 2
    /\ DescentSlot(cand, LastCall.point) = <<"L">>
    /\ cand.right.tag = "NonEmpty"
    /\ tree.right = cand.right
    /\ tree.count = 3

----------------------------------------------------------------------------
(* SpecRep: ControlNode values assembled as in SpecArb, where one vertex   *)
(* may hold the point of another, handed to the verifier.                  *)

\* One more ControlNode::NonEmpty vertex that holds a point already in the
\* tree, with any rank, at any Empty position; at most one per tree.
GraftRepeat ==
    /\ pc = "arb_assemble"
    /\ Size(cand) < ArbN
    /\ Size(cand) = Cardinality(PointsOf(cand))
    /\ \E q \in Slots(cand), p \in PointsOf(cand), r \in ArbRanks :
          cand' = WithLeaf(monoid, cand, q, p, ValueOf(p), r)
    /\ UNCHANGED <<monoid, pc, data, tree, runs, verdict, store, lookup, encData, encTest>>

NextRep ==
    \/ Graft
    \/ GraftRepeat
    \/ AssertCand

SpecRep == InitArb /\ [][NextRep]_vars

\* t with the count and the summary of every vertex replaced.
RECURSIVE WithAggregates(_, _, _)
WithAggregates(t, count, summary) ==
    IF t.tag # "NonEmpty" THEN t
    ELSE [t EXCEPT !.count = count, !.summary = summary,
                   !.left = WithAggregates(t.left, count, summary),
                   !.right = WithAggregates(t.right, count, summary)]

\* C21: a tree that assert_tree_invariants accepts holds pairwise distinct
\* points: no two of its vertices hold the same point.  The verifier reads
\* neither count nor summary: it gives the same verdict on the tree with
\* every count and summary replaced.
C21_AcceptedTreesHaveDistinctPoints ==
    /\ (pc = "arb_checked" /\ verdict = "ok") =>
          \A qa, qb \in Paths(cand) :
              At(cand, qa).key = At(cand, qb).key => qa = qb
    /\ pc = "arb_checked" =>
          verdict = assert_tree_invariants(WithAggregates(cand, 0, 0))

C21_Witness ==
    /\ pc = "arb_checked"
    /\ verdict = "ok"
    /\ Size(cand) = 3
    /\ Cardinality(PointsOf(cand)) = 3
    /\ cand.left.tag = "NonEmpty"
    /\ cand.left.right.tag = "NonEmpty"
    /\ cand.left.rank % 3 # cand.rank % 3

----------------------------------------------------------------------------
(* Further properties of insertion sequences (SpecIns).                    *)

\* Rule 3 at every vertex of t: the points of the left subtree are Less,
\* those of the right subtree Greater, than the vertex's point in the
\* ordering selected by the vertex's rank.
Separated(t) ==
    \A q \in Paths(t) :
        LET v == At(t, q)
        IN  /\ \A p \in PointsOf(v.left) : cmp_points_at_rank(v.rank, p, v.key) = "Less"
            /\ \A p \in PointsOf(v.right) : cmp_points_at_rank(v.rank, p, v.key) = "Greater"

\* C22: after every insert_no_balance call of a sequence with distinct
\* points, whatever the order of the ranks, every vertex separates its
\* subtrees in the ordering of its own rank.
C22_SeparationForAnyOrder ==
    Inserted => Separated(tree)

C22_Witness ==
    /\ Inserted
    /\ Len(data) = 3
    /\ Size(tree) = 3
    /\ Separated(tree)
    /\ tree.left.tag = "NonEmpty"
    /\ tree.left.rank > tree.rank
    /\ tree.left.right.tag = "NonEmpty"
    /\ tree.left.rank % 3 # tree.rank % 3
    /\ assert_tree_invariants(tree) = "panic"

----------------------------------------------------------------------------
(* Boundary keys of the child lookups against the stored keys (Spec).      *)

\* The non-empty children of a vertex.
ChildrenOf(v) == {c \in {v.left, v.right} : c.tag = "NonEmpty"}

\* C23: distinct vertices of the stored tree have distinct keys; the
\* boundary key built to look up a child of rank cr of a vertex is a
\* stored key exactly when cr is the vertex's own rank, and then it is the
\* vertex's own key and the child is a right child; and find_lte on the
\* boundary key of a left-child lookup returns what the strict lookup
\* returned, as find_gte does wherever the boundary key is not stored.
C23_BoundaryKeys ==
    /\ pc \in {"storing", "stored"} =>
          \A qa, qb \in Paths(tree) :
              kv_entry(At(tree, qa)).key = kv_entry(At(tree, qb)).key => qa = qb
    /\ pc = "stored" =>
          /\ Cardinality(store) = Size(tree)
          /\ \A q \in Paths(tree) :
                LET v == At(tree, q)
                IN  \A c \in ChildrenOf(v) :
                        LET boundary == kv_key(c.rank, v.key)
                        IN  /\ (\E e \in store : e.key = boundary) <=> c.rank = v.rank
                            /\ c.rank = v.rank =>
                                  /\ boundary = kv_entry(v).key
                                  /\ c = v.right
                                  /\ v.left.tag = "NonEmpty" => v.left.rank # v.rank
    /\ (pc = "found" /\ lookup.side = "left") =>
          find_lte(store, kv_key(lookup.cr, At(tree, lookup.path).key)) = lookup.found
    /\ (pc = "found" /\ lookup.side = "right"
                     /\ lookup.cr # At(tree, lookup.path).rank) =>
          find_gte(store, kv_key(lookup.cr, At(tree, lookup.path).key)) = lookup.found

C23_Witness ==
    /\ pc = "found"
    /\ lookup.side = "left"
    /\ lookup.path = <<>>
    /\ lookup.found.tag = "Some"
    /\ Size(tree) = 3
    /\ tree.right.tag = "NonEmpty"
    /\ tree.right.rank = tree.rank
    /\ kv_key(tree.right.rank, tree.key) \in {e.key : e \in store}
    /\ kv_key(tree.left.rank, tree.key) \notin {e.key : e \in store}

====
